---- MODULE Spec2Model ----
(***************************************************************************)
(* Model of the analytical core of the Stock Research App:                 *)
(*   data/calculator.py  calculate_weekly_returns, get_timeframe_data,     *)
(*                       calculate_multi_timeframe_stats,                  *)
(*                       predict_future_week_price                         *)
(*   utils/stats.py      calculate_statistics                              *)
(* and of the two places of the user interface that take the risk-adjusted *)
(* ratio of a statistics record:                                           *)
(*   utils/ui_components.py  display_timeframe_comparison                  *)
(*   stock_app.py            run_multi_timeframe_analysis                  *)
(*                                                                         *)
(* Floats are modelled as exact rationals <<n, d>> in lowest terms with    *)
(* d > 0; NaN is <<0, 0>>.  Dates are proleptic Gregorian ordinals         *)
(* (datetime.date.toordinal), so weekdays and calendar-year offsets are    *)
(* the real ones.  A DataFrame / Series is a sequence of rows in index     *)
(* order; a dict is a function from its keys.                              *)
(* pandas semantics are those of the 2.x line the code is written for:     *)
(* resample(...).last() yields NaN for a bin without rows and              *)
(* pct_change() forward-fills NaN before dividing.                         *)
(***************************************************************************)
EXTENDS Integers, Sequences, FiniteSets, TLC

VARIABLES fn, pc, data, years, returns, current_price, stats, weeks_ahead,
          today, weekly, timeframe_stats, result

vars == <<fn, pc, data, years, returns, current_price, stats, weeks_ahead,
          today, weekly, timeframe_stats, result>>

----------------------------------------------------------------------------
(* Exact rational arithmetic standing in for float64.                      *)

Abs(x) == IF x < 0 THEN -x ELSE x

RECURSIVE GCD(_, _)
GCD(a, b) == IF b = 0 THEN a ELSE GCD(b, a % b)

NaN == <<0, 0>>

IsNaN(x) == x[2] = 0

Rat(n, d) ==
    IF d = 0 THEN NaN
    ELSE LET g == GCD(Abs(n), Abs(d))
             s == IF d < 0 THEN -1 ELSE 1
         IN  <<(s * n) \div g, (s * d) \div g>>

FromInt(i) == <<i, 1>>

\* Sums are taken over the least common denominator, which keeps the
\* intermediate integers small.
RAdd(x, y) == IF IsNaN(x) \/ IsNaN(y) THEN NaN
              ELSE LET g == GCD(x[2], y[2])
                   IN  Rat(x[1] * (y[2] \div g) + y[1] * (x[2] \div g),
                           x[2] * (y[2] \div g))

RSub(x, y) == IF IsNaN(x) \/ IsNaN(y) THEN NaN ELSE RAdd(x, <<-y[1], y[2]>>)

\* Products cancel across the fractions before multiplying.
RMul(x, y) == IF IsNaN(x) \/ IsNaN(y) THEN NaN
              ELSE LET g1 == GCD(Abs(x[1]), y[2])
                       g2 == GCD(Abs(y[1]), x[2])
                   IN  Rat((x[1] \div g1) * (y[1] \div g2),
                           (x[2] \div g2) * (y[2] \div g1))

\* Division of finite values; the divisors of the model are never zero
\* (closes are positive, 100 and len(returns) are positive).
RDiv(x, y) == IF IsNaN(x) \/ IsNaN(y) THEN NaN
              ELSE RMul(x, Rat(y[2], y[1]))

\* Comparisons with NaN are false, as in IEEE 754.
RLe(x, y) == /\ ~IsNaN(x) /\ ~IsNaN(y)
             /\ LET g == GCD(x[2], y[2])
                IN  x[1] * (y[2] \div g) <= y[1] * (x[2] \div g)

RLt(x, y) == RLe(x, y) /\ x # y

\* x ** k for an integer k >= 0.
RECURSIVE RPow(_, _)
RPow(x, k) == IF k = 0 THEN FromInt(1) ELSE RMul(x, RPow(x, k - 1))

----------------------------------------------------------------------------
(* The calendar: datetime's ordinals, weekday() and year offsets.          *)

IsLeap(y) == y % 4 = 0 /\ (y % 100 # 0 \/ y % 400 = 0)

DaysInMonth(y, m) ==
    IF m = 2 THEN (IF IsLeap(y) THEN 29 ELSE 28)
    ELSE IF m \in {4, 6, 9, 11} THEN 30 ELSE 31

DaysBeforeYear(y) ==
    (y - 1) * 365 + (y - 1) \div 4 - (y - 1) \div 100 + (y - 1) \div 400

RECURSIVE DaysBeforeMonth(_, _)
DaysBeforeMonth(y, m) ==
    IF m = 1 THEN 0 ELSE DaysBeforeMonth(y, m - 1) + DaysInMonth(y, m - 1)

\* date(y, m, d).toordinal()
Ord(y, m, d) == DaysBeforeYear(y) + DaysBeforeMonth(y, m) + d

\* date.fromordinal(o).year
YearOf(o) ==
    LET n    == o - 1
        n400 == n \div 146097
        r400 == n % 146097
        n100 == r400 \div 36524
        r100 == r400 % 36524
        n4   == r100 \div 1461
        r4   == r100 % 1461
        n1   == r4 \div 365
        y    == n400 * 400 + n100 * 100 + n4 * 4 + n1 + 1
    IN  IF n1 = 4 \/ n100 = 4 THEN y - 1 ELSE y

RECURSIVE MonthFrom(_, _, _)
MonthFrom(y, m, rest) ==
    IF rest <= DaysInMonth(y, m) THEN m
    ELSE MonthFrom(y, m + 1, rest - DaysInMonth(y, m))

MonthOf(o) == MonthFrom(YearOf(o), 1, o - DaysBeforeYear(YearOf(o)))

DayOf(o) == o - DaysBeforeYear(YearOf(o)) - DaysBeforeMonth(YearOf(o), MonthOf(o))

\* datetime.weekday(): Monday = 0 ... Sunday = 6
Weekday(o) == (o + 6) % 7

Min(a, b) == IF a <= b THEN a ELSE b

\* ts - pd.DateOffset(years=n): same month and day n years earlier, the day
\* clamped to the length of the month (29 February -> 28 February).
MinusYears(o, n) ==
    LET y == YearOf(o) - n
        m == MonthOf(o)
    IN  Ord(y, m, Min(DayOf(o), DaysInMonth(y, m)))

----------------------------------------------------------------------------
(* Sequence helpers.                                                       *)

\* The sum of s[lo..hi], by halves (a weekly series has hundreds of rows).
RECURSIVE SumRange(_, _, _)
SumRange(s, lo, hi) ==
    IF lo > hi THEN FromInt(0)
    ELSE IF lo = hi THEN s[lo]
    ELSE LET mid == (lo + hi) \div 2
         IN  RAdd(SumRange(s, lo, mid), SumRange(s, mid + 1, hi))

SumSeq(s) == SumRange(s, 1, Len(s))

Values(s) == {s[i] : i \in DOMAIN s}

MinSeq(s) == CHOOSE x \in Values(s) : \A y \in Values(s) : RLe(x, y)

MaxSeq(s) == CHOOSE x \in Values(s) : \A y \in Values(s) : RLe(y, x)

\* DataFrame.empty / Series.empty
Empty(df) == Len(df) = 0

\* df.index.max() and df.index.min()
IndexMax(df) == CHOOSE d \in {df[i].date : i \in DOMAIN df} :
                    \A j \in DOMAIN df : df[j].date <= d

IndexMin(df) == CHOOSE d \in {df[i].date : i \in DOMAIN df} :
                    \A j \in DOMAIN df : d <= df[j].date

----------------------------------------------------------------------------
(* calculate_weekly_returns                                                *)

\* Variant: bins closed on the left, a Friday opening the next week.
WeekEndClosedLeft(o) == o + 1 + ((4 - Weekday(o + 1)) % 7)

\* The label of the 'W-FRI' bin (closed='right', label='right') a timestamp
\* falls in: the Friday on or after it.
WeekEnd(o) == o + ((4 - Weekday(o)) % 7)

\* .last() of one bin: the Close of the last row of the bin, NaN without rows.
BinLast(df, label) ==
    LET rows == {i \in DOMAIN df : WeekEnd(df[i].date) = label}
    IN  IF rows = {} THEN NaN
        ELSE df[CHOOSE i \in rows : \A j \in rows : j <= i].Close

\* data['Close'].resample('W-FRI', label='right', closed='right').last():
\* one row per week from the week of the first row to the week of the last.
ResampleLast(df) ==
    LET first == WeekEnd(df[1].date)
        last  == WeekEnd(df[Len(df)].date)
    IN  [i \in 1..((last - first) \div 7 + 1) |->
            [date  |-> first + 7 * (i - 1),
             Close |-> BinLast(df, first + 7 * (i - 1))]]

\* The fill pct_change() applies before dividing (fill_method='pad'): each
\* NaN is replaced by the last value before it that is not NaN.
FFill(s) ==
    LET valid == {j \in DOMAIN s : ~IsNaN(s[j].Close)}
    IN  [i \in DOMAIN s |->
            LET before == {j \in valid : j <= i}
            IN  IF before = {} THEN s[i].Close
                ELSE s[CHOOSE j \in before : \A k \in before : k <= j].Close]

\* Series.pct_change(): filled / filled.shift(1) - 1, NaN in the first row.
PctChange(s) ==
    LET filled == FFill(s)
    IN  [i \in DOMAIN s |->
            [date |-> s[i].date,
             value |-> IF i = 1 THEN NaN
                       ELSE RSub(RDiv(filled[i], filled[i - 1]), FromInt(1))]]

NotNaNValue(row) == ~IsNaN(row.value)

\* Variant: the undefined first change kept.
DropNaKeepsAll(s) == s

\* Series.dropna()
DropNa(s) == SelectSeq(s, NotNaNValue)

\* weekly_data.pct_change().dropna() * 100, as a frame with one column.
calculate_weekly_returns(df) ==
    IF Empty(df) THEN <<>>
    ELSE LET weekly_data    == ResampleLast(df)
             weekly_returns == DropNa(PctChange(weekly_data))
         IN  [i \in DOMAIN weekly_returns |->
                 [date |-> weekly_returns[i].date,
                  Weekly_Return_Pct |->
                      RMul(weekly_returns[i].value, FromInt(100))]]

\* weekly_returns['Weekly_Return_Pct']
ReturnColumn(wr) == [i \in DOMAIN wr |-> wr[i].Weekly_Return_Pct]

----------------------------------------------------------------------------
(* get_timeframe_data; years is {} for None and {n} for the integer n.     *)

\* Variant: the boundary date left out.
KeepExclusive(df, start_date) ==
    LET Test(row) == row.date > start_date IN SelectSeq(df, Test)

\* full_data[full_data.index >= start_date]
Keep(df, start_date) ==
    LET Test(row) == row.date >= start_date IN SelectSeq(df, Test)

\* Variant: a year taken when years is None.
get_timeframe_data_default_year(full_data, yrs) ==
    IF Empty(full_data) THEN <<>>
    ELSE LET y           == IF yrs = {} THEN 1 ELSE CHOOSE n \in yrs : TRUE
             latest_date == IndexMax(full_data)
             start_date  == MinusYears(latest_date, y)
         IN  Keep(full_data, start_date)

get_timeframe_data(full_data, yrs) ==
    IF Empty(full_data) THEN <<>>
    ELSE IF yrs = {} THEN full_data
    ELSE LET y           == CHOOSE n \in yrs : TRUE
             latest_date == IndexMax(full_data)
             start_date  == MinusYears(latest_date, y)
         IN  Keep(full_data, start_date)

----------------------------------------------------------------------------
(* calculate_statistics                                                    *)

NotNaN(x) == ~IsNaN(x)

\* The square root is kept symbolic: Sqrt(v) is the number whose square is v
\* (NaN for NaN).
Sqrt(v) == [radicand |-> v]

\* Series.mean(), skipna
Mean(s) == LET v == SelectSeq(s, NotNaN)
           IN  IF Empty(v) THEN NaN ELSE RDiv(SumSeq(v), FromInt(Len(v)))

\* Variant: the population standard deviation, ddof = 0.
StdPopulation(s) ==
    LET v   == SelectSeq(s, NotNaN)
        m   == Mean(s)
        dev == [i \in DOMAIN v |-> RMul(RSub(v[i], m), RSub(v[i], m))]
    IN  IF Len(v) < 1 THEN Sqrt(NaN)
        ELSE Sqrt(RDiv(SumSeq(dev), FromInt(Len(v))))

\* Series.std(): sample standard deviation, ddof = 1; NaN below 2 values.
Std(s) ==
    LET v   == SelectSeq(s, NotNaN)
        m   == Mean(s)
        dev == [i \in DOMAIN v |-> RMul(RSub(v[i], m), RSub(v[i], m))]
    IN  IF Len(v) < 2 THEN Sqrt(NaN)
        ELSE Sqrt(RDiv(SumSeq(dev), FromInt(Len(v) - 1)))

SeriesMin(s) == LET v == SelectSeq(s, NotNaN) IN IF Empty(v) THEN NaN ELSE MinSeq(v)

SeriesMax(s) == LET v == SelectSeq(s, NotNaN) IN IF Empty(v) THEN NaN ELSE MaxSeq(v)

EmptyDict == <<>>

\* Variant: no early return for an empty series.
calculate_statistics_unguarded(rets) ==
    [average |-> Mean(rets),
     minimum |-> SeriesMin(rets),
     maximum |-> SeriesMax(rets),
     std_dev |-> Std(rets),
     count   |-> Len(rets)]

\* Variant: minimum and maximum exchanged.
calculate_statistics_swapped(rets) ==
    IF Empty(rets) THEN EmptyDict
    ELSE [average |-> Mean(rets),
          minimum |-> SeriesMax(rets),
          maximum |-> SeriesMin(rets),
          std_dev |-> Std(rets),
          count   |-> Len(rets)]

\* The statistics record; {} for an empty series.
calculate_statistics(rets) ==
    IF Empty(rets) THEN EmptyDict
    ELSE [average |-> Mean(rets),
          minimum |-> SeriesMin(rets),
          maximum |-> SeriesMax(rets),
          std_dev |-> Std(rets),
          count   |-> Len(rets)]

----------------------------------------------------------------------------
(* calculate_multi_timeframe_stats.  A dict that is iterated or whose      *)
(* insertion order matters is a sequence of [key, value] entries.          *)

None == {}

\* Variant: the years of 5yr and 3yr exchanged.
timeframes_exchanged == << [key |-> "max",  value |-> None],
                           [key |-> "10yr", value |-> {10}],
                           [key |-> "5yr",  value |-> {3}],
                           [key |-> "3yr",  value |-> {5}],
                           [key |-> "1yr",  value |-> {1}] >>

\* timeframes.items()
timeframes == << [key |-> "max",  value |-> None],
                 [key |-> "10yr", value |-> {10}],
                 [key |-> "5yr",  value |-> {5}],
                 [key |-> "3yr",  value |-> {3}],
                 [key |-> "1yr",  value |-> {1}] >>

\* Variant: the years counted on the calendar, not in trading days.
PeriodInfoCalendarYears(period_data) ==
    [data_start    |-> IndexMin(period_data),
     data_end      |-> IndexMax(period_data),
     years_of_data |-> Rat(IndexMax(period_data) - IndexMin(period_data), 365)]

\* The period-specific fields added to a non-empty statistics record.
PeriodInfo(period_data) ==
    [data_start    |-> IndexMin(period_data),
     data_end      |-> IndexMax(period_data),
     years_of_data |-> Rat(Len(period_data), 252)]

\* Variant: a period without weekly returns is stored, not skipped.
PeriodStepNoSkip(results, full_data, period) ==
    LET period_data    == get_timeframe_data(full_data, period.value)
        weekly_returns == calculate_weekly_returns(period_data)
        st             == calculate_statistics(ReturnColumn(weekly_returns))
    IN  IF Empty(period_data) THEN results
        ELSE Append(results, [key |-> period.key, value |-> st])

\* One iteration of the loop over timeframes.items(): results after the
\* period has been processed.
PeriodStep(results, full_data, period) ==
    LET period_data    == get_timeframe_data(full_data, period.value)
        weekly_returns == calculate_weekly_returns(period_data)
        st             == calculate_statistics(ReturnColumn(weekly_returns))
    IN  IF Empty(period_data) THEN results
        ELSE IF Empty(weekly_returns) THEN results
        ELSE Append(results,
                    [key   |-> period.key,
                     value |-> IF DOMAIN st # {}
                               THEN st @@ PeriodInfo(period_data)
                               ELSE st])

RECURSIVE PeriodLoop(_, _)
PeriodLoop(full_data, n) ==
    IF n = 0 THEN <<>>
    ELSE PeriodStep(PeriodLoop(full_data, n - 1), full_data, timeframes[n])

calculate_multi_timeframe_stats(full_data) ==
    PeriodLoop(full_data, Len(timeframes))

\* Dict access over the entry sequence.
Keys(d) == {d[i].key : i \in DOMAIN d}

Get(d, k) == d[CHOOSE i \in DOMAIN d : d[i].key = k].value

----------------------------------------------------------------------------
(* predict_future_week_price.  A datetime is [day, tod]: the ordinal of    *)
(* its date and its time of day in seconds.  A call that raises returns    *)
(* [raised |-> exception].                                                 *)

Raised(e) == [raised |-> e]

\* dt + timedelta(days=n)
PlusDays(dt, n) == [day |-> dt.day + n, tod |-> dt.tod]

\* Variant: Saturday taken for Friday.
DaysUntilFridayOffByOne(dt) == (5 - Weekday(dt.day)) % 7

\* (4 - target_date.weekday()) % 7
DaysUntilFriday(dt) == (4 - Weekday(dt.day)) % 7

\* The target date: weeks_ahead weeks from today, moved to the next Friday.
TargetDate(now, k) ==
    LET target_date       == PlusDays(now, k * 7)
        days_until_friday == DaysUntilFriday(target_date)
    IN  IF days_until_friday > 0
        THEN PlusDays(target_date, days_until_friday)
        ELSE target_date

\* Variant: the weekly rate added k times instead of compounded.
ScenarioPriceLinear(price, rate, k) ==
    RMul(price, RAdd(FromInt(1), RDiv(RMul(rate, FromInt(k)), FromInt(100))))

\* Variant: the sign of the rate flipped.
ScenarioPriceNegated(price, rate, k) ==
    RMul(price, RPow(RSub(FromInt(1), RDiv(rate, FromInt(100))), k))

\* current_price * ((1 + rate / 100) ** weeks_ahead)
ScenarioPrice(price, rate, k) ==
    RMul(price, RPow(RAdd(FromInt(1), RDiv(rate, FromInt(100))), k))

\* ((scenario_price / current_price) - 1) * 100
TotalChange(scenario_price, price) ==
    RMul(RSub(RDiv(scenario_price, price), FromInt(1)), FromInt(100))

\* target_date.strftime('%B %d, %Y'), as <<month, day, year>>
StrfTime(dt) == <<MonthOf(dt.day), DayOf(dt.day), YearOf(dt.day)>>

\* Variant: zero weeks ahead let through.
NoProjectionZeroWeeks(st, k) ==
    DOMAIN st = {} \/ "average" \notin DOMAIN st \/ k < 0

\* not stats or 'average' not in stats or weeks_ahead < 1
NoProjection(st, k) ==
    DOMAIN st = {} \/ "average" \notin DOMAIN st \/ k < 1

\* current_price is <<>> for None.
predict_future_week_price(price, st, k, now) ==
    IF NoProjection(st, k) THEN EmptyDict
    ELSE IF price = <<>> THEN Raised("TypeError")
    ELSE IF "maximum" \notin DOMAIN st THEN Raised("KeyError")
    ELSE IF "minimum" \notin DOMAIN st THEN Raised("KeyError")
    ELSE LET target_date       == TargetDate(now, k)
             expected_price    == ScenarioPrice(price, st.average, k)
             optimistic_price  == ScenarioPrice(price, st.maximum, k)
             pessimistic_price == ScenarioPrice(price, st.minimum, k)
         IN  [current_price      |-> price,
              expected_price     |-> expected_price,
              optimistic_price   |-> optimistic_price,
              pessimistic_price  |-> pessimistic_price,
              expected_change    |-> TotalChange(expected_price, price),
              optimistic_change  |-> TotalChange(optimistic_price, price),
              pessimistic_change |-> TotalChange(pessimistic_price, price),
              weeks_ahead        |-> k,
              target_date        |-> target_date,
              target_date_str    |-> StrfTime(target_date),
              weekly_avg_return  |-> st.average,
              weekly_max_return  |-> st.maximum,
              weekly_min_return  |-> st.minimum]

----------------------------------------------------------------------------
(* The inputs.                                                             *)

\* The most rows of a short frame, of a long history and of a return
\* series, and the largest weeks_ahead.
MaxLen == 3
MaxHistory == 3
MaxReturns == 3
MaxWeeks == 3

\* Trading days of four consecutive weeks, the last ending Friday 1 March
\* 2024: its Friday, Thursday (a leap day), Monday and Saturday; the Friday
\* before; a Wednesday of the week ending 16 February; the Friday and the
\* Thursday of the week ending 9 February.
WeekPool ==
    { Ord(2024, 3, 1),  Ord(2024, 2, 29), Ord(2024, 2, 26), Ord(2024, 2, 24),
      Ord(2024, 2, 23), Ord(2024, 2, 14), Ord(2024, 2, 9),  Ord(2024, 2, 8) }

\* Trading days of a long history: the last week, the days one, three and
\* five years before 1 March 2024, the day one year before 29 February
\* 2024, and days inside and outside the ten-year window.
YearPool ==
    { Ord(2024, 3, 1),  Ord(2024, 2, 29), Ord(2024, 2, 23), Ord(2023, 3, 1),
      Ord(2023, 2, 28), Ord(2022, 6, 17), Ord(2021, 3, 1),  Ord(2019, 3, 1),
      Ord(2014, 3, 3),  Ord(2013, 1, 4) }

ClosePool == { FromInt(100), FromInt(125) }

\* The dates of a set in ascending order.
RECURSIVE SortedDates(_)
SortedDates(S) ==
    IF S = {} THEN <<>>
    ELSE LET m == CHOOSE d \in S : \A e \in S : d <= e
         IN  <<m>> \o SortedDates(S \ {m})

\* The price frames on a set of dates: rows sorted by date, dates unique,
\* closes positive.
FramesOn(S) ==
    LET ds == SortedDates(S)
    IN  { [i \in DOMAIN ds |-> [date |-> ds[i], Close |-> f[ds[i]]]] :
              f \in [S -> ClosePool] }

\* Short frames with every choice of closes.
WeekFrames ==
    UNION { FramesOn(S) : S \in { T \in SUBSET WeekPool : Cardinality(T) <= MaxLen } }

\* A long history, its closes alternating between 100 and 125.
HistoryOn(S) ==
    LET ds == SortedDates(S)
    IN  [i \in DOMAIN ds |->
            [date |-> ds[i], Close |-> FromInt(IF i % 2 = 1 THEN 100 ELSE 125)]]

YearFrames ==
    { HistoryOn(S) : S \in { T \in SUBSET YearPool : Cardinality(T) <= MaxHistory } }

\* The years argument: None, or a number of years back.
YearsArgs == { None, {0}, {1}, {2}, {3}, {5}, {10} }

\* Weekly returns in per cent.
ReturnPool == { FromInt(-5), FromInt(0), FromInt(2), FromInt(5) }

\* The sequences over S of length at most n.
RECURSIVE SeqsUpTo(_, _)
SeqsUpTo(S, n) ==
    IF n = 0 THEN { <<>> }
    ELSE LET shorter == SeqsUpTo(S, n - 1)
         IN  shorter \cup { Append(q, x) : q \in shorter, x \in S }

ReturnSeqs == SeqsUpTo(ReturnPool, MaxReturns)

\* Statistics records as calculate_statistics builds them, and dicts that
\* lack some of the keys.
StatsArgs ==
    { calculate_statistics(r) : r \in SeqsUpTo(ReturnPool, 2) }
    \cup { [average |-> FromInt(2)],
           [average |-> FromInt(2), maximum |-> FromInt(5)],
           [average |-> FromInt(2), minimum |-> FromInt(-5)],
           [minimum |-> FromInt(-5), maximum |-> FromInt(5)] }

\* The latest close: None (<<>>), or a positive price.
PriceArgs == { <<>>, FromInt(100), Rat(25, 2) }

\* weeks_ahead, values below 1 included.
WeeksArgs == (-1) .. MaxWeeks

\* now(): any day of one week, at midnight or in the afternoon.
TodayArgs ==
    { [day |-> Ord(2024, 2, 26) + i, tod |-> t] : i \in 0..6, t \in {0, 54000} }

\* Values of the arguments a call does not take.
NoFrame == <<>>
NoToday == [day |-> 0, tod |-> 0]

----------------------------------------------------------------------------
(* The state machine: a call with its arguments, then its return.          *)

Init ==
    /\ pc = "call"
    /\ result = <<>>
    /\ weekly = NoFrame
    /\ timeframe_stats = <<>>
    /\ \/ /\ fn = "calculate_weekly_returns"
          /\ data \in WeekFrames
          /\ years = None /\ returns = <<>> /\ current_price = <<>>
          /\ stats = EmptyDict /\ weeks_ahead = 0 /\ today = NoToday
       \/ /\ fn = "get_timeframe_data"
          /\ data \in YearFrames
          /\ years \in YearsArgs
          /\ returns = <<>> /\ current_price = <<>>
          /\ stats = EmptyDict /\ weeks_ahead = 0 /\ today = NoToday
       \/ /\ fn = "calculate_statistics"
          /\ returns \in ReturnSeqs
          /\ data = NoFrame /\ years = None /\ current_price = <<>>
          /\ stats = EmptyDict /\ weeks_ahead = 0 /\ today = NoToday
       \/ /\ fn = "calculate_multi_timeframe_stats"
          /\ data \in YearFrames
          /\ years = None /\ returns = <<>> /\ current_price = <<>>
          /\ stats = EmptyDict /\ weeks_ahead = 0 /\ today = NoToday
       \/ /\ fn = "predict_future_week_price"
          /\ current_price \in PriceArgs
          /\ stats \in StatsArgs
          /\ weeks_ahead \in WeeksArgs
          /\ today \in TodayArgs
          /\ data = NoFrame /\ years = None /\ returns = <<>>

args == <<fn, data, years, returns, current_price, stats, weeks_ahead, today,
          timeframe_stats>>

CalculateWeeklyReturns ==
    /\ pc = "call" /\ fn = "calculate_weekly_returns"
    /\ weekly' = IF Empty(data) THEN NoFrame ELSE ResampleLast(data)
    /\ result' = calculate_weekly_returns(data)
    /\ pc' = "return"
    /\ UNCHANGED args

GetTimeframeData ==
    /\ pc = "call" /\ fn = "get_timeframe_data"
    /\ result' = get_timeframe_data(data, years)
    /\ pc' = "return"
    /\ UNCHANGED <<args, weekly>>

CalculateStatistics ==
    /\ pc = "call" /\ fn = "calculate_statistics"
    /\ result' = calculate_statistics(returns)
    /\ pc' = "return"
    /\ UNCHANGED <<args, weekly>>

CalculateMultiTimeframeStats ==
    /\ pc = "call" /\ fn = "calculate_multi_timeframe_stats"
    /\ result' = calculate_multi_timeframe_stats(data)
    /\ pc' = "return"
    /\ UNCHANGED <<args, weekly>>

PredictFutureWeekPrice ==
    /\ pc = "call" /\ fn = "predict_future_week_price"
    /\ result' = predict_future_week_price(current_price, stats, weeks_ahead, today)
    /\ pc' = "return"
    /\ UNCHANGED <<args, weekly>>

Next ==
    \/ CalculateWeeklyReturns
    \/ GetTimeframeData
    \/ CalculateStatistics
    \/ CalculateMultiTimeframeStats
    \/ PredictFutureWeekPrice

Spec == Init /\ [][Next]_vars

Returned(f) == pc = "return" /\ fn = f

----------------------------------------------------------------------------
(* The user interface: the comparison view and the multi-timeframe page.   *)
(* What a handler shows is its result; the cells formatted from floats     *)
(* are left out, and a quotient is kept with its two operands.             *)

\* period.upper()
Upper(period) ==
    CASE period = "max"  -> "MAX"
      [] period = "10yr" -> "10YR"
      [] period = "5yr"  -> "5YR"
      [] period = "3yr"  -> "3YR"
      [] period = "1yr"  -> "1YR"

\* `not stats` of an entry of timeframe_stats.items()
NoStats(item) == DOMAIN item.value = {}

HasStats(item) == ~NoStats(item)

\* stats['std_dev'] == 0; false for NaN, as every comparison with NaN.
StdDevIsZero(st) == st.std_dev = Sqrt(FromInt(0))

\* stats['average'] / stats['std_dev'] on numpy floats: the quotient is
\* taken whatever the divisor (inf or NaN for 0, NaN for NaN).
Quotient(st) == [average |-> st.average, std_dev |-> st.std_dev]

\* `not stats or stats['std_dev'] == 0` of the risk-adjusted loop
RiskAdjustedSkip(item) == NoStats(item) \/ StdDevIsZero(item.value)

RiskAdjustedKept(item) == ~RiskAdjustedSkip(item)

\* The rows of the comparison table.
ComparisonData(ts) ==
    LET shown == SelectSeq(ts, HasStats)
    IN  [i \in DOMAIN shown |->
            [Period         |-> Upper(shown[i].key),
             Weeks_Analyzed |-> shown[i].value.count]]

\* The rows of the risk-adjusted table.
RiskAdjustedData(ts) ==
    LET kept == SelectSeq(ts, RiskAdjustedKept)
    IN  [i \in DOMAIN kept |->
            [Period               |-> Upper(kept[i].key),
             risk_adjusted_return |-> Quotient(kept[i].value)]]

display_timeframe_comparison(ts) ==
    IF Empty(ts)
    THEN [warning |-> "No timeframe data available for analysis."]
    ELSE IF Empty(ComparisonData(ts))
    THEN [warning |-> "No valid timeframe data available for comparison."]
    ELSE [comparison_data    |-> ComparisonData(ts),
          risk_adjusted_data |-> RiskAdjustedData(ts)]

\* Truth value of latest_price: None and 0.0 are false.
Truthy(price) == price # <<>> /\ price # FromInt(0)

\* timeframes_map
timeframes_map == [p \in {"1yr", "3yr", "5yr", "10yr", "max"} |->
                     CASE p = "1yr"  -> {1}
                       [] p = "3yr"  -> {3}
                       [] p = "5yr"  -> {5}
                       [] p = "10yr" -> {10}
                       [] p = "max"  -> None]

\* The periods that get a tab.
AvailablePeriods(ts) ==
    LET HasEntry(period) == /\ period \in Keys(ts)
                            /\ DOMAIN Get(ts, period) # {}
    IN  SelectSeq(<<"1yr", "3yr", "5yr", "10yr", "max">>, HasEntry)

\* The tabs whose summary is shown: the slice and its weekly returns are not
\* empty.
TabShown(full_stock_data, period) ==
    LET period_data == get_timeframe_data(full_stock_data,
                                          timeframes_map[period])
    IN  /\ ~Empty(period_data)
        /\ ~Empty(calculate_weekly_returns(period_data))

\* The period-specific summaries, each with its Risk-Adjusted metric.
TabMetrics(full_stock_data, ts) ==
    LET Shown(period) == TabShown(full_stock_data, period)
        tabs == SelectSeq(AvailablePeriods(ts), Shown)
    IN  [i \in DOMAIN tabs |->
            [Period        |-> Upper(tabs[i]),
             Risk_Adjusted |-> Quotient(Get(ts, tabs[i]))]]

\* predictions is <<>> when the prediction section is skipped.
run_multi_timeframe_analysis(full_stock_data, latest_price, k, now) ==
    IF Empty(full_stock_data) THEN [error |-> "No data available"]
    ELSE LET ts == calculate_multi_timeframe_stats(full_stock_data)
         IN  IF Empty(ts)
             THEN [error |-> "Unable to calculate timeframe statistics"]
             ELSE [comparison  |-> display_timeframe_comparison(ts),
                   predictions |->
                       IF /\ Truthy(latest_price)
                          /\ "1yr" \in Keys(ts)
                          /\ DOMAIN Get(ts, "1yr") # {}
                       THEN predict_future_week_price(latest_price,
                                Get(ts, "1yr"), k, now)
                       ELSE <<>>,
                   metrics     |-> TabMetrics(full_stock_data, ts)]

\* The statistics handed to the comparison view: those of a short history.
TimeframeStatsArgs ==
    { calculate_multi_timeframe_stats(df) : df \in WeekFrames }

\* The weeks_ahead choices of the page.
PageWeeks == 1 .. MaxWeeks

\* now() when the page runs: a Monday at midnight or a Friday afternoon.
PageToday == { [day |-> Ord(2024, 2, 26), tod |-> 0],
               [day |-> Ord(2024, 3, 1), tod |-> 54000] }

InitUI ==
    /\ pc = "call"
    /\ result = <<>>
    /\ weekly = NoFrame
    /\ years = None /\ returns = <<>> /\ stats = EmptyDict
    /\ \/ /\ fn = "display_timeframe_comparison"
          /\ timeframe_stats \in TimeframeStatsArgs
          /\ data = NoFrame /\ current_price = <<>>
          /\ weeks_ahead = 0 /\ today = NoToday
       \/ /\ fn = "run_multi_timeframe_analysis"
          /\ data \in WeekFrames
          /\ current_price \in PriceArgs
          /\ weeks_ahead \in PageWeeks
          /\ today \in PageToday
          /\ timeframe_stats = <<>>

DisplayTimeframeComparison ==
    /\ pc = "call" /\ fn = "display_timeframe_comparison"
    /\ result' = display_timeframe_comparison(timeframe_stats)
    /\ pc' = "return"
    /\ UNCHANGED <<args, weekly>>

RunMultiTimeframeAnalysis ==
    /\ pc = "call" /\ fn = "run_multi_timeframe_analysis"
    /\ timeframe_stats' = IF Empty(data) THEN <<>>
                          ELSE calculate_multi_timeframe_stats(data)
    /\ result' = run_multi_timeframe_analysis(data, current_price,
                                               weeks_ahead, today)
    /\ pc' = "return"
    /\ UNCHANGED <<fn, data, years, returns, current_price, stats,
                   weeks_ahead, today, weekly>>

NextUI ==
    \/ DisplayTimeframeComparison
    \/ RunMultiTimeframeAnalysis

SpecUI == InitUI /\ [][NextUI]_vars

----------------------------------------------------------------------------
(* The claims.                                                             *)

\* The call returned a projection record.
Projected == Returned("predict_future_week_price") /\ "expected_price" \in DOMAIN result

\* The arguments the projector is specified for.
ProjectorArgsOk ==
    /\ current_price # <<>>
    /\ {"average", "minimum", "maximum"} \subseteq DOMAIN stats
    /\ weeks_ahead >= 1

\* A price grown week by week at a fixed weekly rate (per cent).
RECURSIVE Grow(_, _, _)
Grow(price, rate, k) ==
    IF k = 0 THEN price
    ELSE LET before == Grow(price, rate, k - 1)
         IN  RAdd(before, RDiv(RMul(before, rate), FromInt(100)))

\* price * (1 + change / 100) = scenario
IsTotalChange(change, price, scenario) ==
    RAdd(price, RDiv(RMul(price, change), FromInt(100))) = scenario

\* C1: with a positive price, a record holding average, minimum and maximum
\* and k = weeks_ahead >= 1, each scenario price is the price compounded k
\* times at its weekly rate, each change is the total change from the price to
\* the scenario price, which for k = 1 is the weekly rate and for k >= 2 and a
\* non-zero rate is not rate * k.
C1_Compounding ==
    (Returned("predict_future_week_price") /\ ProjectorArgsOk) =>
        /\ Projected
        /\ result.expected_price    = Grow(current_price, stats.average, weeks_ahead)
        /\ result.optimistic_price  = Grow(current_price, stats.maximum, weeks_ahead)
        /\ result.pessimistic_price = Grow(current_price, stats.minimum, weeks_ahead)
        /\ IsTotalChange(result.expected_change, current_price, result.expected_price)
        /\ IsTotalChange(result.optimistic_change, current_price, result.optimistic_price)
        /\ IsTotalChange(result.pessimistic_change, current_price, result.pessimistic_price)
        /\ weeks_ahead = 1 =>
              /\ result.expected_change    = stats.average
              /\ result.optimistic_change  = stats.maximum
              /\ result.pessimistic_change = stats.minimum
        /\ (weeks_ahead >= 2 /\ stats.average # FromInt(0)) =>
              result.expected_change # RMul(stats.average, FromInt(weeks_ahead))

C1_Witness ==
    /\ Projected
    /\ weeks_ahead = 3
    /\ stats.average = Rat(7, 2)
    /\ stats.minimum = FromInt(2)
    /\ current_price = Rat(25, 2)

\* Lexicographic order of datetimes.
DtLe(a, b) == a.day < b.day \/ (a.day = b.day /\ a.tod <= b.tod)

\* C7: the target date is a Friday, is not earlier than today + 7 *
\* weeks_ahead days, and is the first Friday on or after that date.
C7_TargetFriday ==
    (Returned("predict_future_week_price") /\ ProjectorArgsOk) =>
        LET base == today.day + 7 * weeks_ahead
            t    == result.target_date
        IN  /\ Projected
            /\ Weekday(t.day) = 4
            /\ DtLe([day |-> base, tod |-> today.tod], t)
            /\ t.tod = today.tod
            /\ t.day - base \in 0..6
            /\ \A d \in base .. (t.day - 1) : Weekday(d) # 4

C7_Witness ==
    /\ Projected
    /\ weeks_ahead = 2
    /\ Weekday(today.day) = 5
    /\ result.target_date.day = today.day + 14 + 6

\* C8: when maximum >= average >= minimum, the optimistic price is at least
\* the expected price, which is at least the pessimistic price.
C8_ScenarioOrder ==
    (/\ Returned("predict_future_week_price")
     /\ ProjectorArgsOk
     /\ RLe(stats.average, stats.maximum)
     /\ RLe(stats.minimum, stats.average)) =>
        /\ Projected
        /\ RLe(result.expected_price, result.optimistic_price)
        /\ RLe(result.pessimistic_price, result.expected_price)

C8_Witness ==
    /\ Projected
    /\ weeks_ahead = 2
    /\ RLt(stats.minimum, stats.average)
    /\ RLt(stats.average, stats.maximum)
    /\ RLt(result.pessimistic_price, result.expected_price)
    /\ RLt(result.expected_price, result.optimistic_price)

\* The Friday that ends the calendar week (Saturday to Friday) of a day.
WeekFriday(d) == CHOOSE f \in d .. (d + 6) : Weekday(f) = 4

\* The weeks of a frame that have a weekly close: those with a trading day.
WeeksTraded(df) == {WeekFriday(df[i].date) : i \in DOMAIN df}

\* The rows of a frame that fall in the week ending on the Friday f.
RowsOfWeek(df, f) == {i \in DOMAIN df : f - 6 <= df[i].date /\ df[i].date <= f}

\* The weekly close of a week with a trading day: the close of its last one.
WeeklyClose(df, f) ==
    df[CHOOSE i \in RowsOfWeek(df, f) : \A j \in RowsOfWeek(df, f) : j <= i].Close

\* C2: a series with at least 2 weekly closes, weeks without a trading day
\* between them allowed, yields (number of weekly closes) - 1 rows.
C2_RowCount ==
    (Returned("calculate_weekly_returns") /\ Cardinality(WeeksTraded(data)) >= 2) =>
        Len(result) = Cardinality(WeeksTraded(data)) - 1

\* C3: every returned entry is the return between two adjacent weekly
\* closes, prev * (1 + r / 100) = curr, curr being the close of the entry's
\* week; the first weekly close produces no entry.
C3_AdjacentCloses ==
    Returned("calculate_weekly_returns") =>
        \A i \in DOMAIN result :
            LET w     == result[i].date
                r     == result[i].Weekly_Return_Pct
                weeks == WeeksTraded(data)
            IN  /\ w \in weeks
                /\ \E p \in weeks :
                      /\ p < w
                      /\ \A q \in weeks : ~(p < q /\ q < w)
                      /\ RAdd(WeeklyClose(data, p),
                              RDiv(RMul(WeeklyClose(data, p), r), FromInt(100)))
                            = WeeklyClose(data, w)

\* C4: the resampled series has one row per week ending on a Friday; the
\* close of a week is the close of the last trading day of that week, the
\* Friday included (so the latest earlier day of the week when the Friday has
\* none); every trading day lies in exactly one week.
C4_WeeklyClose ==
    (Returned("calculate_weekly_returns") /\ ~Empty(data)) =>
        /\ \A j \in DOMAIN weekly :
              /\ Weekday(weekly[j].date) = 4
              /\ j > 1 => weekly[j].date = weekly[j - 1].date + 7
              /\ IF RowsOfWeek(data, weekly[j].date) = {}
                 THEN IsNaN(weekly[j].Close)
                 ELSE weekly[j].Close = WeeklyClose(data, weekly[j].date)
        /\ \A i \in DOMAIN data :
              Cardinality({j \in DOMAIN weekly : i \in RowsOfWeek(data, weekly[j].date)}) = 1

\* A week whose Friday has no trading day takes Thursday's close, while the
\* Saturday before belongs to the same week and the Friday before to the
\* previous one.
C4_Witness ==
    /\ Returned("calculate_weekly_returns")
    /\ Len(data) = 3
    /\ data[1].date = Ord(2024, 2, 23)
    /\ data[2].date = Ord(2024, 2, 24)
    /\ data[3].date = Ord(2024, 2, 29)
    /\ data[1].Close # data[3].Close
    /\ Len(weekly) = 2
    /\ weekly[1].Close = data[1].Close
    /\ weekly[2] = [date |-> Ord(2024, 3, 1), Close |-> data[3].Close]

\* The sum of a short sequence, left to right.
RECURSIVE Total(_)
Total(s) == IF s = <<>> THEN FromInt(0) ELSE RAdd(Total(SubSeq(s, 1, Len(s) - 1)), s[Len(s)])

\* C9: for a non-empty sequence average * n is the sum, minimum and maximum
\* are the smallest and the largest element, count is the length (count >= 1
\* and minimum <= average <= maximum); an empty sequence gives an empty
\* record.
C9_Statistics ==
    Returned("calculate_statistics") =>
        IF returns = <<>> THEN DOMAIN result = {}
        ELSE /\ RMul(result.average, FromInt(Len(returns))) = Total(returns)
             /\ \E i \in DOMAIN returns : returns[i] = result.minimum
             /\ \A i \in DOMAIN returns : RLe(result.minimum, returns[i])
             /\ \E i \in DOMAIN returns : returns[i] = result.maximum
             /\ \A i \in DOMAIN returns : RLe(returns[i], result.maximum)
             /\ result.count = Len(returns)
             /\ result.count >= 1
             /\ RLe(result.minimum, result.average)
             /\ RLe(result.average, result.maximum)

C9_Witness ==
    /\ Returned("calculate_statistics")
    /\ returns = <<FromInt(5), FromInt(-5), FromInt(2)>>
    /\ result.average = Rat(2, 3)
    /\ result.minimum = FromInt(-5)
    /\ result.maximum = FromInt(5)
    /\ result.count = 3

\* C10: every stage returns an empty result for an empty series.
C10_EmptyInput ==
    /\ (Returned("calculate_weekly_returns") /\ Empty(data)) => result = <<>>
    /\ (Returned("get_timeframe_data") /\ Empty(data)) => result = <<>>
    /\ (Returned("calculate_statistics") /\ Empty(returns)) => DOMAIN result = {}
    /\ (Returned("calculate_multi_timeframe_stats") /\ Empty(data)) => result = <<>>

C10_Witness ==
    /\ pc = "return"
    /\ Empty(data) /\ Empty(returns)
    /\ fn = "calculate_statistics"
    /\ DOMAIN result = {}

\* The day y calendar years before a day: the day of the same month and day
\* of the month (28 February for a 29 February that the year lacks) that lies
\* between 365 * y and 366 * y days back.
YearsBefore(o, y) ==
    CHOOSE c \in (o - 366 * y) .. (o - 365 * y) :
        /\ MonthOf(c) = MonthOf(o)
        /\ DayOf(c) = Min(DayOf(o), DaysInMonth(YearOf(c), MonthOf(c)))

\* C6: for a non-empty series and years = y >= 0 the result holds exactly
\* the rows dated on or after (latest date - y calendar years), in their
\* order (a suffix of the sorted input), the row of the latest date included.
C6_TrailingWindow ==
    (Returned("get_timeframe_data") /\ ~Empty(data) /\ years # None) =>
        LET y      == CHOOSE n \in years : TRUE
            latest == data[Len(data)].date
            cutoff == YearsBefore(latest, y)
            kept   == {i \in DOMAIN data : data[i].date >= cutoff}
        IN  /\ Len(result) = Cardinality(kept)
            /\ result = SubSeq(data, Len(data) - Len(result) + 1, Len(data))
            /\ \A i \in DOMAIN data :
                  (i > Len(data) - Len(result)) <=> (i \in kept)
            /\ ~Empty(result)
            /\ result[Len(result)] = data[Len(data)]

\* One year back from 1 March 2024: 1 March 2023 is kept, 28 February 2023
\* is not.
C6_Witness ==
    /\ Returned("get_timeframe_data")
    /\ years = {1}
    /\ Len(data) = 3
    /\ data[1].date = Ord(2023, 2, 28)
    /\ data[2].date = Ord(2023, 3, 1)
    /\ data[3].date = Ord(2024, 3, 1)
    /\ result = <<data[2], data[3]>>

\* The rows of a frame dated on or after a day.
RowsSince(df, start) ==
    LET OnOrAfter(row) == row.date >= start IN SelectSeq(df, OnOrAfter)

\* The slice of a period: the whole frame for max, the trailing window
\* otherwise.
SliceOf(df, period) ==
    IF period.value = None \/ Empty(df) THEN df
    ELSE RowsSince(df, YearsBefore(df[Len(df)].date,
                                   CHOOSE n \in period.value : TRUE))

\* The keys of the result in insertion order.
KeySeq(d) == [i \in DOMAIN d |-> d[i].key]

\* The labels in declaration order.
Labels == [i \in DOMAIN timeframes |-> timeframes[i].key]

IsPresent(label) == label \in Keys(result)

\* C5: a label is a key exactly when its slice has at least 2 weekly closes,
\* which is when the weekly return series of the slice is not empty; the keys
\* are labels of the five periods in declaration order; no key is mapped to
\* an empty record.
C5_LabelPresence ==
    Returned("calculate_multi_timeframe_stats") =>
        /\ \A n \in DOMAIN timeframes :
              LET slice == SliceOf(data, timeframes[n])
              IN  /\ IsPresent(timeframes[n].key)
                        <=> Cardinality(WeeksTraded(slice)) >= 2
                  /\ IsPresent(timeframes[n].key)
                        <=> ~Empty(calculate_weekly_returns(slice))
        /\ KeySeq(result) = SelectSeq(Labels, IsPresent)
        /\ \A i \in DOMAIN result :
              /\ {"average", "minimum", "maximum", "std_dev", "count"}
                     \subseteq DOMAIN result[i].value
              /\ result[i].value.count >= 1
              /\ ~IsNaN(result[i].value.average)

\* The last five years hold two weekly closes, the last three years one.
C5_Witness ==
    /\ Returned("calculate_multi_timeframe_stats")
    /\ KeySeq(result) = <<"max", "10yr", "5yr">>
    /\ Len(data) = 3

\* C11: the projector returns the empty projection, and raises nothing,
\* whenever the statistics record is empty, has no average, or weeks_ahead
\* is below 1 (zero and negative values included), whatever the price.
C11_EmptyProjection ==
    (/\ Returned("predict_future_week_price")
     /\ \/ DOMAIN stats = {}
        \/ "average" \notin DOMAIN stats
        \/ weeks_ahead <= 0)
        => /\ result = EmptyDict
           /\ "raised" \notin DOMAIN result
           /\ "expected_price" \notin DOMAIN result

\* Zero weeks ahead with a price and a complete record.
C11_Witness ==
    /\ Returned("predict_future_week_price")
    /\ weeks_ahead = 0
    /\ current_price # <<>>
    /\ {"average", "minimum", "maximum"} \subseteq DOMAIN stats
    /\ result = EmptyDict

\* C12: the projector returns the empty projection, and raises nothing,
\* when the current price is missing, and when the statistics record has an
\* average but lacks minimum or maximum.
C12_MissingInputs ==
    (/\ Returned("predict_future_week_price")
     /\ \/ current_price = <<>>
        \/ /\ "average" \in DOMAIN stats
           /\ ~({"minimum", "maximum"} \subseteq DOMAIN stats))
        => /\ result = EmptyDict
           /\ "raised" \notin DOMAIN result

\* The days from the first trading day of a frame to its last.
SpanDays(df) == df[Len(df)].date - df[1].date

\* C13 as stated: the weekly return series is empty whenever the input has 0
\* or 1 trading day, and whenever the input spans less than 2 full weeks
\* (two trading days on either side of one Friday boundary included).
C13_ShortSpan ==
    (/\ Returned("calculate_weekly_returns")
     /\ \/ Len(data) <= 1
        \/ SpanDays(data) < 14)
        => Empty(result)

\* C13, amended: the weekly return series is empty whenever the input has 0
\* or 1 trading day, and exactly when all trading days lie in one week
\* ending on Friday (fewer than 2 weekly closes); two trading days on either
\* side of one Friday boundary give one weekly return, dated the later
\* Friday.
C13_SingleWeek ==
    Returned("calculate_weekly_returns") =>
        /\ Len(data) <= 1 => Empty(result)
        /\ Empty(result) <=> Cardinality(WeeksTraded(data)) < 2
        /\ (/\ Len(data) = 2
            /\ WeekFriday(data[2].date) = WeekFriday(data[1].date) + 7)
               => /\ Len(result) = 1
                  /\ result[1].date = WeekFriday(data[2].date)

\* Three trading days of one week: Monday, Thursday and Friday.
C13_Witness ==
    /\ Returned("calculate_weekly_returns")
    /\ Len(data) = 3
    /\ data[1].date = Ord(2024, 2, 26)
    /\ data[3].date = Ord(2024, 3, 1)
    /\ Empty(result)

\* C14: with years absent the slicer returns its input unchanged, and for
\* every series and every years value, slicing the slice again with the same
\* value gives the slice.
C14_Idempotent ==
    Returned("get_timeframe_data") =>
        /\ years = None => result = data
        /\ get_timeframe_data(result, years) = result
        /\ get_timeframe_data(get_timeframe_data(data, years), years)
              = get_timeframe_data(data, years)

\* Two years back from 1 March 2024 cut a three-row history to two rows.
C14_Witness ==
    /\ Returned("get_timeframe_data")
    /\ years = {2}
    /\ Len(data) = 3
    /\ Len(result) = 2
    /\ get_timeframe_data(result, years) = result

\* C15: for every label present in the result, data_start is the earliest
\* date of the label's slice, data_end its latest date, and years_of_data
\* the number of trading days of the slice divided by 252.
C15_PeriodInfo ==
    Returned("calculate_multi_timeframe_stats") =>
        \A n \in DOMAIN timeframes :
            IsPresent(timeframes[n].key) =>
                LET slice == SliceOf(data, timeframes[n])
                    entry == Get(result, timeframes[n].key)
                IN  /\ entry.data_start = slice[1].date
                    /\ entry.data_end = slice[Len(slice)].date
                    /\ \A i \in DOMAIN slice :
                          /\ entry.data_start <= slice[i].date
                          /\ slice[i].date <= entry.data_end
                    /\ RMul(entry.years_of_data, FromInt(252))
                          = FromInt(Len(slice))

\* The five-year slice starts later than the whole history.
C15_Witness ==
    /\ Returned("calculate_multi_timeframe_stats")
    /\ IsPresent("5yr")
    /\ Len(data) = 3
    /\ Get(result, "5yr").data_start = data[2].date
    /\ Get(result, "5yr").years_of_data = Rat(2, 252)
    /\ Get(result, "max").years_of_data = Rat(3, 252)

\* The window of a period reaches back beyond the first trading day.
WindowBeyondHistory(df, period) ==
    /\ period.value # None
    /\ df[1].date > YearsBefore(df[Len(df)].date,
                                CHOOSE n \in period.value : TRUE)

\* C16 as stated: a label whose window is longer than the available history
\* is omitted, so a series spanning 2 years has entries for max and 1yr
\* only, and a listing with less than 10 years of data has no 10yr entry.
C16_ShortHistoryOmitted ==
    (Returned("calculate_multi_timeframe_stats") /\ ~Empty(data)) =>
        \A n \in DOMAIN timeframes :
            WindowBeyondHistory(data, timeframes[n])
                => ~IsPresent(timeframes[n].key)

\* C16, amended: a window longer than the available history is not omitted
\* for that reason; its slice is the whole series, so its label is present
\* exactly when max is, with the record of max.  A series spanning less than
\* 3 years that has a 1yr entry has all five entries.
C16_ShortHistoryKept ==
    (Returned("calculate_multi_timeframe_stats") /\ ~Empty(data)) =>
        /\ \A n \in DOMAIN timeframes :
              (/\ timeframes[n].value # None
               /\ data[1].date >= YearsBefore(data[Len(data)].date,
                                   CHOOSE y \in timeframes[n].value : TRUE))
                  => /\ IsPresent(timeframes[n].key) <=> IsPresent("max")
                     /\ IsPresent("max") =>
                           Get(result, timeframes[n].key) = Get(result, "max")
        /\ (/\ WindowBeyondHistory(data, [key |-> "3yr", value |-> {3}])
            /\ IsPresent("1yr"))
               => KeySeq(result) = Labels

\* A history from 17 June 2022 to 1 March 2024, two of its weeks in the
\* last year: all five labels.
C16_Witness ==
    /\ Returned("calculate_multi_timeframe_stats")
    /\ Len(data) = 3
    /\ data[1].date = Ord(2022, 6, 17)
    /\ data[3].date = Ord(2024, 3, 1)
    /\ KeySeq(result) = <<"max", "10yr", "5yr", "3yr", "1yr">>
    /\ Get(result, "10yr") = Get(result, "max")

\* The record of a single weekly return r: count 1, average, minimum and
\* maximum all r, the standard deviation undefined.
SingleReturnRecord(st, r) ==
    /\ st.count = 1
    /\ st.average = r /\ st.minimum = r /\ st.maximum = r
    /\ IsNaN(st.std_dev.radicand)
    /\ st.std_dev # Sqrt(FromInt(0))

\* C17: a series of exactly one weekly return r has the statistics record
\* count = 1, average = minimum = maximum = r and an undefined std_dev
\* (sample standard deviation, denominator n - 1), both when the statistics
\* are taken of the return series and when the aggregator takes them of a
\* slice with exactly one weekly return.
C17_SingleReturn ==
    /\ (Returned("calculate_statistics") /\ Len(returns) = 1)
          => SingleReturnRecord(result, returns[1])
    /\ Returned("calculate_multi_timeframe_stats") =>
          \A n \in DOMAIN timeframes :
              LET wr == calculate_weekly_returns(SliceOf(data, timeframes[n]))
              IN  Len(wr) = 1 =>
                      /\ IsPresent(timeframes[n].key)
                      /\ SingleReturnRecord(Get(result, timeframes[n].key),
                                            wr[1].Weekly_Return_Pct)

\* The single weekly return 5.0.
C17_Witness ==
    /\ Returned("calculate_statistics")
    /\ returns = <<FromInt(5)>>
    /\ result.count = 1
    /\ result.average = FromInt(5)
    /\ IsNaN(result.std_dev.radicand)

\* The labels from the shortest window to the longest.
Windows == <<"1yr", "3yr", "5yr", "10yr", "max">>

\* The slice the aggregator takes for a label.
SliceFor(label) ==
    get_timeframe_data(data,
        timeframes[CHOOSE n \in DOMAIN timeframes :
                       timeframes[n].key = label].value)

\* A frame is a trailing part of another.
IsSuffix(short, long) ==
    /\ Len(short) <= Len(long)
    /\ short = SubSeq(long, Len(long) - Len(short) + 1, Len(long))

\* C19: the slices of the aggregator are nested, 1yr within 3yr within 5yr
\* within 10yr within max, all ending at the latest date of the series; so
\* a present shorter window implies every longer window present, the count
\* of weekly returns does not decrease from a shorter window to a longer
\* one, and data_end is the same for all present labels.
C19_NestedWindows ==
    Returned("calculate_multi_timeframe_stats") =>
        /\ \A i \in 1..(Len(Windows) - 1) :
              LET short == Windows[i]
                  long  == Windows[i + 1]
              IN  /\ IsSuffix(SliceFor(short), SliceFor(long))
                  /\ ~Empty(data) =>
                        /\ ~Empty(SliceFor(short))
                        /\ SliceFor(short)[Len(SliceFor(short))]
                              = data[Len(data)]
                  /\ IsPresent(short) =>
                        /\ IsPresent(long)
                        /\ Get(result, short).count
                              <= Get(result, long).count
        /\ \A i \in DOMAIN result :
              /\ result[i].value.data_end = data[Len(data)].date
              /\ \A j \in DOMAIN result :
                    result[i].value.data_end = result[j].value.data_end

\* All five labels, the last year with fewer weekly returns than the whole
\* history.
C19_Witness ==
    /\ Returned("calculate_multi_timeframe_stats")
    /\ Keys(result) = {"max", "10yr", "5yr", "3yr", "1yr"}
    /\ Get(result, "1yr").count < Get(result, "3yr").count
    /\ Get(result, "1yr").data_end = Get(result, "max").data_end

\* A divisor that is zero or undefined.
ZeroOrUndefined(std_dev) ==
    IsNaN(std_dev.radicand) \/ std_dev = Sqrt(FromInt(0))

\* C18: no risk-adjusted ratio average / std_dev is taken with a zero or
\* undefined std_dev, neither in the risk-adjusted table of the comparison
\* view nor in the Risk-Adjusted metric of a tab of the multi-timeframe
\* page; such a record gets no ratio.
C18_RatioGuarded ==
    /\ (/\ Returned("display_timeframe_comparison")
        /\ "risk_adjusted_data" \in DOMAIN result)
          => \A i \in DOMAIN result.risk_adjusted_data :
                ~ZeroOrUndefined(
                    result.risk_adjusted_data[i].risk_adjusted_return.std_dev)
    /\ (/\ Returned("run_multi_timeframe_analysis")
        /\ "metrics" \in DOMAIN result)
          => /\ \A i \in DOMAIN result.metrics :
                   ~ZeroOrUndefined(result.metrics[i].Risk_Adjusted.std_dev)
             /\ \A i \in DOMAIN result.comparison.risk_adjusted_data :
                   ~ZeroOrUndefined(
                       result.comparison.risk_adjusted_data[i]
                           .risk_adjusted_return.std_dev)

====
